---- MODULE Spec2Model ----
(***************************************************************************)
(* Model of backend/app.py: a Flask service with three routes              *)
(* (GET /healthz, GET /items, POST /items) over one MongoDB collection.    *)
(*                                                                         *)
(* The item collection, the storage link and the request being handled by  *)
(* each server worker are the state.  A handler runs atomically up to its  *)
(* single storage call; POST /items is therefore two steps (parse and      *)
(* validate, then insert and answer) which other workers may interleave.   *)
(***************************************************************************)
EXTENDS Integers, Sequences, FiniteSets, TLC

\* ------------------------------------------------------------------ bounds
NumWorkers == 2
MaxItems == 2

Workers == 1 .. NumWorkers

\* ------------------------------------------------------------- JSON values
\* A JSON / BSON value: t is its type, s its text (strings), n its number
\* (numbers), its truth value (booleans), its length (arrays) or its serial
\* (object ids).
JStr(s) == [t |-> "str", s |-> s, n |-> 0]
JNum(n) == [t |-> "num", s |-> "", n |-> n]
JBool(b) == [t |-> "bool", s |-> "", n |-> IF b THEN 1 ELSE 0]
JArr(n) == [t |-> "arr", s |-> "", n |-> n]
None == [t |-> "null", s |-> "", n |-> 0]
ObjectId(n) == [t |-> "oid", s |-> "", n |-> n]

\* Values a client may send in the "name" field.
NameValues ==
    { JStr(""), JStr("widget"), JNum(0), JNum(1), JBool(TRUE), None, JArr(1) }

\* A value handed to the response layer: a dict, a list of dicts, an error
\* page of the framework, or nothing (the handler raised).
Dict(d) == [kind |-> "object", elems |-> <<d>>]
List(ds) == [kind |-> "array", elems |-> ds]
ErrorPage == [kind |-> "page", elems |-> <<>>]
Raised == [kind |-> "raise", elems |-> <<>>]
NoBody == [kind |-> "none", elems |-> <<>>]

\* ---------------------------------------------------------------- requests
\* A request body as sent: its declared media type, what its text parses to,
\* and the members of the object when it parses to one.
Body(isJson, kind, obj) == [is_json |-> isJson, kind |-> kind, obj |-> obj]

NoRequest == Body(FALSE, "none", <<>>)

PostBodies ==
    { Body(TRUE, k, <<>>) : k \in {"invalid", "null", "array", "string"} }
        \cup { Body(TRUE, "object", <<>>) }
        \cup { Body(TRUE, "object", [name |-> v]) : v \in NameValues }
        \cup { Body(FALSE, "object", [name |-> JStr("widget")]) }

\* ----------------------------------------------------------- pure functions
\* A presence check (`if name is None`) in place of the truth value.
TruthyNotNone(v) == v.t # "null"

\* Python truth value of what req.get("name") returned (`if not name`).
Truthy(v) ==
    CASE v.t = "null" -> FALSE
      [] v.t = "str" -> v.s # ""
      [] v.t = "num" -> v.n # 0
      [] v.t = "bool" -> v.n = 1
      [] v.t = "arr" -> v.n > 0
      [] OTHER -> TRUE

\* dict.get(key): the member, or None when it is missing.
dict_get(d, key) == IF key \in DOMAIN d THEN d[key] ELSE None

\* request.get_json(): the outcomes the framework can produce.  abort is the
\* HTTP error it raises (0: none), kind and obj what it returns.  A body that
\* is not declared as JSON is answered 415 by Flask >= 2.1 and read as None
\* by Flask 2.0; both support the @app.get decorators of the source.
get_json(body) ==
    IF ~body.is_json
    THEN { [abort |-> 415, kind |-> "null", obj |-> <<>>],
           [abort |-> 0, kind |-> "null", obj |-> <<>>] }
    ELSE IF body.kind = "invalid"
    THEN { [abort |-> 400, kind |-> "null", obj |-> <<>>] }
    ELSE { [abort |-> 0, kind |-> body.kind, obj |-> body.obj] }

\* The JSON encoder of the framework rejects bson ObjectId values.
Serializable(rv) ==
    \A i \in 1 .. Len(rv.elems) :
        \A k \in DOMAIN rv.elems[i] : rv.elems[i][k].t # "oid"

\* What the framework sends for a handler's return value and status: the
\* value as JSON, or its 500 page when the value cannot be encoded.
make_response(rv, status) ==
    IF Serializable(rv)
    THEN [status |-> status, body |-> rv]
    ELSE [status |-> 500, body |-> ErrorPage]

\* find({}) without the projection: the documents as stored.
find_with_id(coll) == coll

\* items.find({}, {"_id": 0}): every document, without its _id.
find(coll) ==
    [i \in 1 .. Len(coll) |->
        [k \in DOMAIN coll[i] \ {"_id"} |-> coll[i][k]]]

\* What insert_one stores for a dict: the dict with a fresh _id added.
with_id(doc, oid) ==
    [k \in DOMAIN doc \cup {"_id"} |-> IF k = "_id" THEN ObjectId(oid) ELSE doc[k]]

\* An insert that keeps names unique: a name already stored is not added.
insert_one_unique(coll, doc, oid) ==
    IF \E i \in 1 .. Len(coll) : coll[i].name = doc.name
    THEN coll
    ELSE Append(coll, with_id(doc, oid))

\* items.insert_one(doc): the collection afterwards.
insert_one(coll, doc, oid) == Append(coll, with_id(doc, oid))

\* -------------------------------------------------------------------- state
VARIABLES
    collection,   \* the documents of db["items"], in insertion order
    nextId,       \* serial of the next ObjectId the driver generates
    up,           \* whether the storage server is reachable
    local,        \* per worker: position in add_item and its locals
    response,     \* the response sent last
    lastGet,      \* the 200 answers of GET /items since the last write: how
                  \* many (counted up to 2) and the body of the latest
    accepted      \* the inserts issued while storage was reachable: the name
                  \* and how many other requests were then about to insert

vars == <<collection, nextId, up, local, response, lastGet, accepted>>

Idle == [pc |-> "idle", item |-> <<>>, request |-> NoRequest]

\* The response record: the route that answered, the value its handler
\* returned (rv), what was sent (status, body), the outcome of the handler's storage
\* call ("none" when it made none) and how many documents the collection
\* gained while the answering step ran.
Sent(endpoint, request, rv, out, storage, gained) ==
    [seq |-> 1 - response.seq, endpoint |-> endpoint,
     request |-> request, rv |-> rv, status |-> out.status, body |-> out.body,
     storage |-> storage, inserted |-> gained]

Failure(status) == [status |-> status, body |-> ErrorPage]

NoGet == [n |-> 0, body |-> NoBody]

Pending == {v \in Workers : local[v].pc = "insert"}

Init ==
    /\ collection = <<>>
    /\ nextId = 1
    /\ up = TRUE
    /\ local = [w \in Workers |-> Idle]
    /\ response = [seq |-> 0, endpoint |-> "none",
                   request |-> NoRequest, rv |-> NoBody, status |-> 0,
                   body |-> NoBody, storage |-> "none", inserted |-> 0]
    /\ lastGet = NoGet
    /\ accepted = <<>>

\* ------------------------------------------------------------------ actions
\* A health check that probes the storage server before answering.
health_probing_storage(w) ==
    /\ local[w].pc = "idle"
    /\ response' =
         IF up
         THEN Sent("GET /healthz", NoRequest, Dict([status |-> JStr("ok")]),
                   make_response(Dict([status |-> JStr("ok")]), 200), "ok", 0)
         ELSE Sent("GET /healthz", NoRequest, Raised, Failure(500),
                   "failed", 0)
    /\ UNCHANGED <<collection, nextId, up, local, lastGet, accepted>>

\* GET /healthz
health(w) ==
    /\ local[w].pc = "idle"
    /\ response' = Sent("GET /healthz", NoRequest,
                        Dict([status |-> JStr("ok")]),
                        make_response(Dict([status |-> JStr("ok")]), 200),
                        "none", 0)
    /\ UNCHANGED <<collection, nextId, up, local, lastGet, accepted>>

\* A listing that consumes what it returns: the documents read are deleted.
get_items_consuming(w) ==
    /\ local[w].pc = "idle"
    /\ up
    /\ response' = Sent("GET /items", NoRequest, List(find(collection)),
                        make_response(List(find(collection)), 200), "ok",
                        0 - Len(collection))
    /\ lastGet' = [n |-> IF lastGet.n < 2 THEN lastGet.n + 1 ELSE 2,
                   body |-> List(find(collection))]
    /\ collection' = <<>>
    /\ UNCHANGED <<nextId, up, local, accepted>>

\* GET /items
get_items(w) ==
    /\ local[w].pc = "idle"
    /\ IF up
       THEN LET data == find(collection)
                out == make_response(List(data), 200)
            IN /\ response' = Sent("GET /items", NoRequest, List(data),
                                   out, "ok", 0)
               /\ lastGet' = IF out.status = 200
                             THEN [n |-> IF lastGet.n < 2 THEN lastGet.n + 1 ELSE 2,
                                   body |-> out.body]
                             ELSE lastGet
       ELSE /\ response' = Sent("GET /items", NoRequest, Raised,
                                Failure(500), "failed", 0)
            /\ UNCHANGED lastGet
    /\ UNCHANGED <<collection, nextId, up, local, accepted>>

\* POST /items, up to the storage call: get_json, req.get("name"), the check.
add_item_begin(w, body) ==
    /\ local[w].pc = "idle"
    /\ Len(collection) + Cardinality(Pending) < MaxItems
    /\ \E js \in get_json(body) :
        IF js.abort # 0
        THEN /\ response' = Sent("POST /items", body, Raised,
                                 Failure(js.abort), "none", 0)
             /\ UNCHANGED local
        ELSE IF js.kind # "object"
        THEN \* req.get on None, a list or a str: AttributeError
             /\ response' = Sent("POST /items", body, Raised,
                                 Failure(500), "none", 0)
             /\ UNCHANGED local
        ELSE LET name == dict_get(js.obj, "name") IN
             IF ~Truthy(name)
             THEN /\ response' =
                        Sent("POST /items", body,
                             Dict([error |-> JStr("name required")]),
                             make_response(
                                 Dict([error |-> JStr("name required")]), 400),
                             "none", 0)
                  /\ UNCHANGED local
             ELSE /\ local' = [local EXCEPT ![w] =
                        [pc |-> "insert", item |-> [name |-> name],
                         request |-> body]]
                  /\ UNCHANGED response
    /\ UNCHANGED <<collection, nextId, up, lastGet, accepted>>

\* POST /items, from the storage call on: insert_one(item), return item, 201.
\* insert_one adds the generated _id to the dict it is given.
add_item_insert(w) ==
    /\ local[w].pc = "insert"
    /\ IF up
       THEN LET item == with_id(local[w].item, nextId) IN
            /\ collection' = insert_one(collection, local[w].item, nextId)
            /\ nextId' = nextId + 1
            /\ accepted' = Append(accepted,
                    [name |-> local[w].item.name,
                     concurrent |-> Cardinality(Pending \ {w})])
            /\ lastGet' = NoGet
            /\ response' = Sent("POST /items", local[w].request, Dict(item),
                                make_response(Dict(item), 201), "ok",
                                Len(collection') - Len(collection))
       ELSE /\ response' = Sent("POST /items", local[w].request, Raised,
                                Failure(500), "failed", 0)
            /\ UNCHANGED <<collection, nextId, accepted, lastGet>>
    /\ local' = [local EXCEPT ![w] = Idle]
    /\ UNCHANGED up

\* The storage server becomes unreachable, or reachable again.
StorageFails ==
    /\ up
    /\ up' = FALSE
    /\ UNCHANGED <<collection, nextId, local, response, lastGet, accepted>>

StorageRecovers ==
    /\ ~up
    /\ up' = TRUE
    /\ UNCHANGED <<collection, nextId, local, response, lastGet, accepted>>

Next ==
    \/ \E w \in Workers : health(w)
    \/ \E w \in Workers : get_items(w)
    \/ \E w \in Workers : \E body \in PostBodies : add_item_begin(w, body)
    \/ \E w \in Workers : add_item_insert(w)
    \/ StorageFails
    \/ StorageRecovers

Spec == Init /\ [][Next]_vars

\* ------------------------------------------------------------------- claims
\* A response has just been sent by the step.
Answered == response'.seq # response.seq

IsPost == response.endpoint = "POST /items"

NameRequired == Dict([error |-> JStr("name required")])

\* The request is declared as JSON and its body is a JSON object.
JsonObject(req) == req.is_json /\ req.kind = "object"

HasName(req) == "name" \in DOMAIN req.obj

\* The body is a JSON object whose name is a non-empty string.
ValidName(req) ==
    /\ JsonObject(req)
    /\ HasName(req)
    /\ req.obj.name.t = "str"
    /\ req.obj.name.s # ""

NoIdentifier(v) == \A i \in 1 .. Len(v.elems) : "_id" \notin DOMAIN v.elems[i]

AllIdle == \A w \in Workers : local[w].pc = "idle"

\* C1: a POST /items whose JSON body is an object with a non-empty string
\* name (and whose storage call did not fail) persists one item with that
\* name, is answered 201 with the body {"name": <value>}, and the name is in
\* what GET /items lists.
C1_PostCreated ==
    (IsPost /\ ValidName(response.request) /\ response.storage # "failed")
        => /\ response.inserted = 1
           /\ response.status = 201
           /\ response.body = Dict([name |-> response.request.obj.name])
           /\ \E i \in 1 .. Len(collection) :
                  find(collection)[i] = [name |-> response.request.obj.name]

\* C2: a POST /items whose JSON body is an object without name, or with the
\* empty string as name, is answered 400 {"error": "name required"} and the
\* step that answers it leaves the collection as it was.
C2_MissingNameRejected ==
    [][(/\ Answered
        /\ response'.endpoint = "POST /items"
        /\ JsonObject(response'.request)
        /\ \/ ~HasName(response'.request)
           \/ response'.request.obj = [name |-> JStr("")])
          => /\ response'.status = 400
             /\ response'.body = NameRequired
             /\ response'.storage = "none"
             /\ collection' = collection]_vars

\* C2 witness: {"name": ""} was answered 400 while the collection held items.
C2_Witness ==
    /\ IsPost
    /\ response.request = Body(TRUE, "object", [name |-> JStr("")])
    /\ response.status = 400
    /\ Len(collection) > 0

\* C3: a POST /items whose body is not valid JSON, or is valid JSON without
\* the name field (null and non-objects included), is answered 400 with the
\* body {"error": "name required"}.
C3_MalformedRejected ==
    (/\ IsPost
     /\ response.request.is_json
     /\ \/ response.request.kind \in {"invalid", "null", "array", "string"}
        \/ ~HasName(response.request))
        => /\ response.status = 400
           /\ response.body = NameRequired

\* C4: no response carries a storage-assigned _id: neither the value a
\* handler hands to the response layer nor the body sent contains one.
C4_NoIdentifierExposed ==
    /\ NoIdentifier(response.rv)
    /\ NoIdentifier(response.body)

\* C5: every document of the collection has a name that is a non-empty
\* string.
C5_NamesAreNonEmptyStrings ==
    \A i \in 1 .. Len(collection) :
        /\ collection[i].name.t = "str"
        /\ collection[i].name.s # ""

\* C6: GET /healthz is answered 200 {"status": "ok"} whether storage is
\* reachable or not, makes no storage call and leaves the collection as it was.
C6_HealthAlwaysOk ==
    [][(Answered /\ response'.endpoint = "GET /healthz")
          => /\ response'.status = 200
             /\ response'.body = Dict([status |-> JStr("ok")])
             /\ response'.storage = "none"
             /\ collection' = collection]_vars

\* C6 witness: the health check answered 200 while storage was unreachable
\* and the collection held items.
C6_Witness ==
    /\ response.endpoint = "GET /healthz"
    /\ response.status = 200
    /\ ~up
    /\ Len(collection) > 0

\* C7: GET /items (storage reachable) is answered 200 with an array of exactly
\* one object per document of the collection, in order, each object holding
\* the name field only; the empty collection gives the empty array.
C7_ListIsExact ==
    [][(Answered /\ response'.endpoint = "GET /items" /\ up)
          => /\ response'.status = 200
             /\ response'.body.kind = "array"
             /\ Len(response'.body.elems) = Len(collection)
             /\ \A i \in 1 .. Len(collection) :
                    response'.body.elems[i] = [name |-> collection[i].name]]_vars

\* C7 witness: a listing of a collection of two documents was answered 200.
C7_Witness ==
    /\ response.endpoint = "GET /items"
    /\ response.status = 200
    /\ Len(response.body.elems) = 2
    /\ Len(collection) = 2

\* C8: GET /items leaves the collection as it was, and when answered 200 with
\* an earlier 200 answer and no write since, its body is that earlier body.
C8_ListIsIdempotent ==
    [][(Answered /\ response'.endpoint = "GET /items")
          => /\ collection' = collection
             /\ (response'.status = 200 /\ lastGet.n > 0)
                    => response'.body = lastGet.body]_vars

\* C8 witness: two listings were answered 200 in a row, with no write between
\* them, over a non-empty collection.
C8_Witness ==
    /\ response.endpoint = "GET /items"
    /\ response.status = 200
    /\ lastGet.n = 2
    /\ Len(collection) > 0

\* C9: inserts never remove or change a stored document, and once every
\* request has completed the collection holds exactly one document per insert
\* issued (with storage reachable), equal names included.
C9_NoInsertLost ==
    [][/\ Len(collection') >= Len(collection)
       /\ SubSeq(collection', 1, Len(collection)) = collection
       /\ AllIdle' =>
            /\ Len(collection') = Len(accepted')
            /\ \A i \in 1 .. Len(accepted') :
                   collection'[i].name = accepted'[i].name
            /\ \A i, j \in 1 .. Len(collection') :
                   i # j => collection'[i]._id # collection'[j]._id]_vars

\* C9 witness: two requests with the same name overlapped (one inserted while
\* the other was about to) and both documents are stored.
C9_Witness ==
    /\ AllIdle
    /\ Len(accepted) = 2
    /\ accepted[1].concurrent = 1
    /\ accepted[1].name = JStr("widget")
    /\ accepted[2].name = JStr("widget")
    /\ Len(collection) = 2

\* C10: a POST /items adds a document exactly when it is answered 201; a
\* request answered 400 or with a server error adds none.
C10_StatusAgreesWithEffect ==
    IsPost => (response.inserted = 1 <=> response.status = 201)
====
